---- MODULE Spec2Model ----
(***************************************************************************)
(* Model of detect-filetype (src/src/lib.rs): the static rule table        *)
(* MAGIC_MAP and the scan detect_filetype performs over it.  A byte buffer *)
(* is a sequence of integers 0..255; a call is a walk over the table, one  *)
(* rule per step, that ends by returning Some(ty), returning None, or by   *)
(* the slice-index panic Rust raises for an out-of-range range start.      *)
(***************************************************************************)
EXTENDS Integers, Sequences, FiniteSets

VARIABLES bytes, idx, pc, ret

vars == <<bytes, idx, pc, ret>>

(* ---------------------------------------------------------------- bounds *)
\* every buffer length 0..ShortLen is explored
ShortLen == 20
\* lengths within Slack of each offset / reach boundary of the table are explored
Slack == 1

(* ------------------------------------------------------------- FileType *)
FileType == {"Tga", "Jpeg", "Png", "Bmp", "Tiff", "BigTiff", "Zip", "Bzip2", "Tar"}

(* ----------------------------------------------------------------- Check *)
Check_default == [bytes |-> << >>, offset |-> 0]

Check_new_with_offset(offset, bs) == [bytes |-> bs, offset |-> offset]

Check_new(bs) == Check_new_with_offset(0, bs)

(* ----------------------------------------------------------------- Magic *)
Magic_starts_with(bs) == [start |-> Check_new(bs), end |-> Check_default]

Magic_starts_with_offset(offset, bs) ==
    [start |-> Check_new_with_offset(offset, bs), end |-> Check_default]

Magic_ends_with_off1(bs) == [start |-> Check_default, end |-> [bytes |-> bs, offset |-> 1]]

Magic_ends_with(bs) == [start |-> Check_default, end |-> [bytes |-> bs, offset |-> 0]]

(* ------------------------------------------------------ signature bytes *)
\* b"TRUEVISION-XFILE.\0"
TGA_FOOTER == <<84, 82, 85, 69, 86, 73, 83, 73, 79, 78, 45, 88, 70, 73, 76, 69, 46, 0>>
JPEG_SOI == <<255, 216>>
PNG_SIG == <<137, 80, 78, 71, 13, 10, 26, 10>>
PNG_IEND == <<73, 69, 78, 68, 174, 66, 96, 130>>
\* b"BM"
BMP_SIG == <<66, 77>>
\* b"II\x2a\x00", b"MM\x00\x2a", b"II\x2b\x00", b"MM\x00\x2b"
TIFF_LE == <<73, 73, 42, 0>>
TIFF_BE == <<77, 77, 0, 42>>
BIGTIFF_LE == <<73, 73, 43, 0>>
BIGTIFF_BE == <<77, 77, 0, 43>>
\* b"BZh"
BZIP2_SIG == <<66, 90, 104>>
ZIP_LOCAL == <<80, 75, 3, 4>>
ZIP_EMPTY == <<80, 75, 5, 6>>
\* b"PKLITE"
PKLITE_SIG == <<80, 75, 76, 73, 84, 69>>
\* b"ustar  \0"
USTAR_SIG == <<117, 115, 116, 97, 114, 32, 32, 0>>

(* ------------------------------------------------------------- MAGIC_MAP *)
\* the table with the big-endian BigTiff entry carrying the Tiff magic
MAGIC_MAP_dup ==
    << <<Magic_ends_with(TGA_FOOTER), "Tga">>,
       <<Magic_starts_with(JPEG_SOI), "Jpeg">>,
       <<[start |-> Check_new(PNG_SIG), end |-> Check_new(PNG_IEND)], "Png">>,
       <<Magic_starts_with(BMP_SIG), "Bmp">>,
       <<Magic_starts_with(TIFF_LE), "Tiff">>,
       <<Magic_starts_with(TIFF_BE), "Tiff">>,
       <<Magic_starts_with(BIGTIFF_LE), "BigTiff">>,
       <<Magic_starts_with(TIFF_BE), "BigTiff">>,
       <<Magic_starts_with(BZIP2_SIG), "Bzip2">>,
       <<Magic_starts_with(ZIP_LOCAL), "Zip">>,
       <<Magic_starts_with(ZIP_EMPTY), "Zip">>,
       <<Magic_starts_with_offset(30, PKLITE_SIG), "Zip">>,
       <<Magic_starts_with_offset(257, USTAR_SIG), "Tar">> >>

MAGIC_MAP ==
    << <<Magic_ends_with(TGA_FOOTER), "Tga">>,
       <<Magic_starts_with(JPEG_SOI), "Jpeg">>,
       <<[start |-> Check_new(PNG_SIG), end |-> Check_new(PNG_IEND)], "Png">>,
       <<Magic_starts_with(BMP_SIG), "Bmp">>,
       <<Magic_starts_with(TIFF_LE), "Tiff">>,
       <<Magic_starts_with(TIFF_BE), "Tiff">>,
       <<Magic_starts_with(BIGTIFF_LE), "BigTiff">>,
       <<Magic_starts_with(BIGTIFF_BE), "BigTiff">>,
       <<Magic_starts_with(BZIP2_SIG), "Bzip2">>,
       <<Magic_starts_with(ZIP_LOCAL), "Zip">>,
       <<Magic_starts_with(ZIP_EMPTY), "Zip">>,
       <<Magic_starts_with_offset(30, PKLITE_SIG), "Zip">>,
       <<Magic_starts_with_offset(257, USTAR_SIG), "Tar">> >>

NumRules == Len(MAGIC_MAP)

(* ------------------------------------------------- slice primitives used *)
\* bytes[from..] is in range iff from <= len; otherwise the index panics
RangeFromOk_strict(b, from) == from < Len(b)

RangeFromOk(b, from) == from <= Len(b)

\* bytes[..len - off]: the subtraction underflows / the range is invalid iff off > len
RangeToOk(b, off) == off <= Len(b)

RangeFrom(b, from) == SubSeq(b, from + 1, Len(b))

RangeTo(b, off) == SubSeq(b, 1, Len(b) - off)

\* needle compared one position late
starts_with_shifted(s, needle) ==
    /\ Len(needle) + 1 <= Len(s)
    /\ SubSeq(s, 2, Len(needle) + 1) = needle

starts_with(s, needle) ==
    /\ Len(needle) <= Len(s)
    /\ SubSeq(s, 1, Len(needle)) = needle

\* length check missing: a needle longer than the slice is accepted
ends_with_nolen(s, needle) ==
    \/ Len(needle) > Len(s)
    \/ SubSeq(s, Len(s) - Len(needle) + 1, Len(s)) = needle

ends_with(s, needle) ==
    /\ Len(needle) <= Len(s)
    /\ SubSeq(s, Len(s) - Len(needle) + 1, Len(s)) = needle

(* ------------------------------------------- the loop's `if` condition   *)
\* Outcome of evaluating, left to right with short-circuit &&,
\*   bytes[start.offset..].starts_with(start.bytes)
\*     && bytes[..bytes.len() - end.offset].ends_with(end.bytes)
RuleEval(magic, b) ==
    IF ~RangeFromOk(b, magic.start.offset) THEN "panic"
    ELSE IF ~starts_with(RangeFrom(b, magic.start.offset), magic.start.bytes) THEN "nomatch"
    ELSE IF ~RangeToOk(b, magic.end.offset) THEN "panic"
    ELSE IF ends_with(RangeTo(b, magic.end.offset), magic.end.bytes) THEN "match"
    ELSE "nomatch"

\* iteration order of `for (magic, ty) in MAGIC_MAP`
RuleAt_rev(i) == MAGIC_MAP[NumRules + 1 - i]

RuleAt(i) == MAGIC_MAP[i]

(* ---------------------------------------------------------------- inputs *)
Max(S) == CHOOSE m \in S : \A x \in S : x <= m

Prefixes(s) == {SubSeq(s, 1, k) : k \in 0..Len(s)}

\* leading fragments: every prefix of every offset-0 start signature
Heads == UNION {Prefixes(MAGIC_MAP[i][1].start.bytes) :
                  i \in {j \in 1..NumRules : MAGIC_MAP[j][1].start.offset = 0}}

\* fragments planted at a non-zero start offset
Planted == {MAGIC_MAP[i][1].start : i \in {j \in 1..NumRules : MAGIC_MAP[j][1].start.offset > 0}}

\* trailing fragments: every end signature, or none
Tails == {MAGIC_MAP[i][1].end.bytes : i \in 1..NumRules}

Fills == {0, 65}

StartReach(i) == MAGIC_MAP[i][1].start.offset + Len(MAGIC_MAP[i][1].start.bytes)

Boundaries ==
    {c.offset : c \in Planted} \cup {c.offset + Len(c.bytes) : c \in Planted}
      \cup {Max({StartReach(i) : i \in 1..NumRules}) + Max({Len(t) : t \in Tails})}

MaxLen == Max(Boundaries) + Slack

Lens == {n \in 0..MaxLen :
           \/ n <= ShortLen
           \/ \E t \in Boundaries : n >= t - Slack /\ n <= t + Slack}

\* a buffer of n bytes: fill everywhere, then head at 0, the planted
\* fragments at their offsets, and tail flush with the end (later wins)
Build(n, fill, head, plant, tail) ==
    [k \in 1..n |->
        IF k > n - Len(tail) THEN tail[k - n + Len(tail)]
        ELSE IF \E c \in plant : k > c.offset /\ k <= c.offset + Len(c.bytes)
             THEN LET c == CHOOSE c \in plant : k > c.offset /\ k <= c.offset + Len(c.bytes)
                  IN c.bytes[k - c.offset]
        ELSE IF k <= Len(head) THEN head[k]
        ELSE fill]

Inputs == {Build(n, f, h, p, t) : n \in Lens, f \in Fills, h \in Heads,
                                  p \in SUBSET Planted, t \in Tails}

(* ------------------------------------------------------- detect_filetype *)
Init ==
    /\ bytes \in Inputs
    /\ idx = 1
    /\ pc = "loop"
    /\ ret = "unset"

\* a range index of the current rule is out of range: the call panics
SlicePanic ==
    /\ pc = "loop"
    /\ idx <= NumRules
    /\ RuleEval(RuleAt(idx)[1], bytes) = "panic"
    /\ pc' = "panicked"
    /\ UNCHANGED <<bytes, idx, ret>>

\* the condition holds: return Some(*ty)
ReturnSome ==
    /\ pc = "loop"
    /\ idx <= NumRules
    /\ RuleEval(RuleAt(idx)[1], bytes) = "match"
    /\ pc' = "returned"
    /\ ret' = RuleAt(idx)[2]
    /\ UNCHANGED <<bytes, idx>>

\* the condition is false: next table entry
NextRule ==
    /\ pc = "loop"
    /\ idx <= NumRules
    /\ RuleEval(RuleAt(idx)[1], bytes) = "nomatch"
    /\ idx' = idx + 1
    /\ UNCHANGED <<bytes, pc, ret>>

\* the table is exhausted: return None
ReturnNone ==
    /\ pc = "loop"
    /\ idx > NumRules
    /\ pc' = "returned"
    /\ ret' = "None"
    /\ UNCHANGED <<bytes, idx>>

Next == SlicePanic \/ ReturnSome \/ NextRule \/ ReturnNone

Spec == Init /\ [][Next]_vars

TypeOK ==
    /\ bytes \in Seq(0..255)
    /\ idx \in 1..(NumRules + 1)
    /\ pc \in {"loop", "returned", "panicked"}
    /\ ret \in FileType \cup {"None", "unset"}

(* ------------------------------------------------ what the claims speak of *)
\* pat occurs in b exactly at offset off (counted from the start)
PresentAt(b, pat, off) ==
    /\ off + Len(pat) <= Len(b)
    /\ \A k \in 1..Len(pat) : b[off + k] = pat[k]

\* pat is exactly the final bytes of b
TailIs(b, pat) ==
    /\ Len(pat) <= Len(b)
    /\ \A k \in 1..Len(pat) : b[Len(b) - Len(pat) + k] = pat[k]

\* rule i of the table is satisfied by b: start bytes at the start offset
\* and end bytes at the tail
Satisfies(i, b) ==
    /\ PresentAt(b, MAGIC_MAP[i][1].start.bytes, MAGIC_MAP[i][1].start.offset)
    /\ TailIs(b, MAGIC_MAP[i][1].end.bytes)

Finished == pc # "loop"

ReturnedSome(ty) == pc = "returned" /\ ret = ty

ReturnedNone == pc = "returned" /\ ret = "None"

\* the rules anchored at the very start of the buffer
ZeroOffsetStartRules ==
    {i \in 1..NumRules : /\ MAGIC_MAP[i][1].start.offset = 0
                         /\ MAGIC_MAP[i][1].start.bytes # << >>}

(* C1: for every buffer of every length the call completes without an     *)
(* out-of-bounds fault: a rule whose start pattern reaches past the end   *)
(* of the buffer is treated as not matching, the scan continues, and the  *)
(* call returns None if no rule fits.                                     *)
C1_NeverFaults ==
    /\ pc # "panicked"
    /\ (Finished /\ \A i \in 1..NumRules : ~Satisfies(i, bytes)) => ReturnedNone

(* C2: the call on the empty buffer returns None after scanning the whole *)
(* table.                                                                  *)
C2_EmptyBufferReturnsNone ==
    (bytes = << >> /\ Finished) => (ReturnedNone /\ idx = NumRules + 1)

(* C3: first match wins: when the buffer satisfies at least one rule, the *)
(* call returns Some(T) for T the FileType of the lowest-index satisfied   *)
(* rule, and the scan never moves past that rule.                          *)
C3_FirstMatchWins ==
    \A i \in 1..NumRules :
        (Satisfies(i, bytes) /\ \A j \in 1..(i - 1) : ~Satisfies(j, bytes))
            => /\ pc = "loop" => idx <= i
               /\ Finished => (ReturnedSome(MAGIC_MAP[i][2]) /\ idx = i)

\* a buffer satisfying two rules of different FileTypes got the earlier one
C3_Witness ==
    /\ pc = "returned"
    /\ \E i \in 1..NumRules, j \in 1..NumRules :
          /\ i < j
          /\ Satisfies(i, bytes) /\ Satisfies(j, bytes)
          /\ MAGIC_MAP[i][2] # MAGIC_MAP[j][2]
          /\ \A k \in 1..(i - 1) : ~Satisfies(k, bytes)
          /\ ret = MAGIC_MAP[i][2]

(* C4: on the exact 8-byte buffer 89 50 4E 47 0D 0A 1A 0A (PNG start      *)
(* signature, no IEND trailer) the call returns None.                      *)
C4_BarePngSignatureReturnsNone ==
    (bytes = PNG_SIG /\ Finished) => ReturnedNone

(* C5 (as stated): every buffer of length >= 2 that starts with FF D8     *)
(* yields Some(Jpeg), whatever the remaining bytes are.                    *)
C5_JpegPrefixAlwaysJpeg ==
    (Len(bytes) >= 2 /\ bytes[1] = 255 /\ bytes[2] = 216 /\ Finished)
        => ReturnedSome("Jpeg")

(* C5 (amended): a buffer of length >= 2 that starts with FF D8 yields    *)
(* Some(Jpeg) unless its last 18 bytes are the TGA footer, in which case  *)
(* the earlier Tga rule wins and it yields Some(Tga).                      *)
C5_JpegPrefixUnlessTgaFooter ==
    (Len(bytes) >= 2 /\ bytes[1] = 255 /\ bytes[2] = 216 /\ Finished)
        => IF TailIs(bytes, TGA_FOOTER) THEN ReturnedSome("Tga")
                                        ELSE ReturnedSome("Jpeg")

C5_Witness ==
    /\ Len(bytes) > 2 /\ bytes[1] = 255 /\ bytes[2] = 216
    /\ ~TailIs(bytes, TGA_FOOTER)
    /\ ReturnedSome("Jpeg")

(* C6: every buffer whose last 18 bytes are "TRUEVISION-XFILE." plus a    *)
(* zero byte yields Some(Tga), whatever precedes them (including nothing); *)
(* it is decided by the first table entry.                                 *)
C6_TgaFooterIsTga ==
    TailIs(bytes, TGA_FOOTER)
        => /\ idx = 1
           /\ Finished => ReturnedSome("Tga")

C6_Witness ==
    /\ bytes = TGA_FOOTER
    /\ ReturnedSome("Tga")

(* C8 (as stated): no buffer satisfies two rules mapped to different      *)
(* FileTypes.                                                              *)
C8_AllSignaturesDisjoint ==
    \A i \in 1..NumRules, j \in 1..NumRules :
        (Satisfies(i, bytes) /\ Satisfies(j, bytes)) => MAGIC_MAP[i][2] = MAGIC_MAP[j][2]

(* C8 (amended): the rules anchored at offset 0 of the buffer are         *)
(* disjoint across FileTypes: no buffer satisfies two of them mapped to    *)
(* different FileTypes, and when the call returns through one of them no   *)
(* other of them is satisfied.                                             *)
C8_ZeroOffsetSignaturesDisjoint ==
    \A i \in ZeroOffsetStartRules, j \in ZeroOffsetStartRules :
        (Satisfies(i, bytes) /\ Satisfies(j, bytes))
            => /\ MAGIC_MAP[i][2] = MAGIC_MAP[j][2]
               /\ i = j

C8_Witness ==
    /\ ReturnedSome("BigTiff")
    /\ idx \in ZeroOffsetStartRules
    /\ Satisfies(idx, bytes)

(* C9: every start offset of the table is <= 0x101 and every end offset   *)
(* is 0, so a buffer of length >= 0x101 never faults; a fault happens only *)
(* for a buffer shorter than 0x101, at the first rule whose start offset   *)
(* exceeds the buffer length, and only when no earlier rule is satisfied.  *)
C9_FaultOnlyBelowLargestOffset ==
    /\ \A i \in 1..NumRules : /\ MAGIC_MAP[i][1].start.offset <= 257
                              /\ MAGIC_MAP[i][1].end.offset = 0
    /\ Len(bytes) >= 257 => pc # "panicked"
    /\ pc = "panicked"
         => /\ Len(bytes) < 257
            /\ idx <= NumRules
            /\ MAGIC_MAP[idx][1].start.offset > Len(bytes)
            /\ \A j \in 1..(idx - 1) : /\ MAGIC_MAP[j][1].start.offset <= Len(bytes)
                                       /\ ~Satisfies(j, bytes)

\* a buffer long enough for the 0x1e rule but not for the 0x101 rule faults there
C9_Witness ==
    /\ pc = "panicked"
    /\ Len(bytes) >= 30
    /\ MAGIC_MAP[idx][2] = "Tar"

(* C10: soundness: Some(T) is returned only when the table has a rule for *)
(* T that the buffer satisfies; Some(Png) only for buffers that begin with *)
(* the PNG signature and end with the IEND trailer, Some(Tar) only for     *)
(* buffers of at least 0x101 + 8 bytes.                                    *)
C10_SomeIsSound ==
    (pc = "returned" /\ ret # "None")
        => /\ \E i \in 1..NumRules : MAGIC_MAP[i][2] = ret /\ Satisfies(i, bytes)
           /\ ret = "Png" => (PresentAt(bytes, PNG_SIG, 0) /\ TailIs(bytes, PNG_IEND))
           /\ ret = "Tar" => (Len(bytes) >= 257 + 8 /\ PresentAt(bytes, USTAR_SIG, 257))

\* the shortest buffer the Tar rule accepts
C10_Witness ==
    /\ ReturnedSome("Tar")
    /\ Len(bytes) = 257 + 8
====
